---- MODULE Spec2Model ----
(***************************************************************************)
(* Reconciliation state machines of the YDB Kubernetes operator:           *)
(*   StorageReconciler.Sync   (controllers/storage/sync.go)                *)
(*   DatabaseReconciler.Sync  (controllers/database/sync.go)               *)
(*   StorageClusterBuilder    (pkg/resources)                              *)
(*                                                                         *)
(* One Sync invocation is one action.  Every phase is an operator from an  *)
(* invocation context to the SET of contexts the phase can end in: the     *)
(* nondeterminism is the outcome of the collaborator calls the phase makes *)
(* (object store, health probe, remote command, tenant management API).    *)
(* A context carries the in-memory working copy (mem), the persisted       *)
(* status (st), the owned children in the object store (ch), the phase's   *)
(* (ctrl.Result, error) outcome (res) and a trace of what the invocation   *)
(* did (tr).  What the object store holds of objects other reconcilers own *)
(* (pods, the StatefulSet's status, the referenced Storage) is read when a *)
(* phase asks for it and may be anything within the bounds.  Go's nil and  *)
(* empty condition slices are both the empty sequence; the error value is  *)
(* a tag naming its cause, "nil" for nil.                                  *)
(***************************************************************************)
EXTENDS Integers, Sequences, FiniteSets, TLC

VARIABLES
    focus,      \* which resource this behaviour reconciles: "storage" | "database"
    sStatus,    \* Storage: persisted Status {State, Conditions}
    sCh,        \* Storage: owned child objects in the object store, by builder key
    sPending,   \* Storage: a Sync invocation is queued (trigger or requeue)
    settled,    \* Storage: the environment changes no more and every call succeeds
    sInv,       \* Storage: what the Sync invocation that just returned did (empty after any other step)
    dStatus,    \* Database: persisted Status {State, Conditions}
    dCh,        \* Database: owned child objects in the object store
    dInv,       \* Database: what the Sync invocation that just returned did (empty after any other step)
    dHist,      \* Database: history (tenant calls of earlier invocations, states seen)
    dflt,       \* a Database spec going through SetDatabaseSpecDefaults
    frame       \* a stored resource, a working copy of it and the last setState call

vars == <<focus, sStatus, sCh, sPending, settled, sInv, dStatus, dCh, dInv, dHist,
          dflt, frame>>

storageVars == <<sStatus, sCh, sPending, settled, sInv>>
databaseVars == <<dStatus, dCh, dInv, dHist>>
unitVars == <<dflt, frame>>

----------------------------------------------------------------------------
\* Bounds of the model.
StorageNodes == 1       \* Storage.Spec.Nodes
DatabaseNodes == 1      \* Database.Spec.Nodes
MaxPods == 2            \* most pods / replicas the environment shows
MaxDisturbed == 1       \* most children missing or edited when the environment disturbs another
MaxApplied == 2         \* most applications of SetDatabaseSpecDefaults to one spec

\* Requeue delays, in seconds.
ScaleRequeueDelay == 10
HealthcheckRequeueDelay == 30
DefineBoxRequeueDelay == 30
ConfigureRootRequeueDelay == 30
DefaultRequeueDelay == 10
TenantCreationRequeueDelay == 30
StorageAwaitRequeueDelay == 60

StorageInitializedCondition == "StorageInitialized"
ConditionTenantInitialized == "TenantInitialized"

Provisioning == "Provisioning"
Initializing == "Initializing"
Ready == "Ready"

----------------------------------------------------------------------------
\* controllers.Ok / RequeueAfter / NoRequeue / RequeueImmediately and
\* ctrl.Result.IsZero: the (ctrl.Result, error) pair a phase returns.
Ok == [Requeue |-> FALSE, RequeueAfter |-> 0, err |-> "nil"]
RequeueAfter(d, e) == [Requeue |-> FALSE, RequeueAfter |-> d, err |-> e]
NoRequeue(e) == [Requeue |-> FALSE, RequeueAfter |-> 0, err |-> e]
RequeueImmediately == [Requeue |-> TRUE, RequeueAfter |-> 0, err |-> "nil"]
IsZero(r) == ~r.Requeue /\ r.RequeueAfter = 0

\* `if err != nil || !result.IsZero() { return result, err }`
Stops(r) == r.err # "nil" \/ ~IsZero(r)

----------------------------------------------------------------------------
\* meta.IsStatusConditionTrue and meta.SetStatusCondition on a condition sequence.
IsStatusConditionTrue(conds, type) ==
    \E i \in 1..Len(conds) : conds[i].Type = type /\ conds[i].Status = "True"

HasCondition(conds, type) == \E i \in 1..Len(conds) : conds[i].Type = type

SetStatusCondition(conds, new) ==
    IF HasCondition(conds, new.Type)
    THEN [i \in 1..Len(conds) |->
            IF conds[i].Type = new.Type THEN new ELSE conds[i]]
    ELSE Append(conds, new)

CountType(conds, type) == Cardinality({i \in 1..Len(conds) : conds[i].Type = type})

----------------------------------------------------------------------------
\* Child objects.
Absent == [exists |-> FALSE, data |-> [kind |-> "none", replicas |-> 0], owner |-> "none"]

\* builder.Build(rr): the desired shape of the child of kind k for an owner with n nodes.
Build(k, n) == [kind |-> k, replicas |-> IF k = "statefulset" THEN n ELSE 0]

Edited(k) == [kind |-> k, replicas |-> 0 - 1]

EmptyTrace ==
    [phases |-> <<>>, outs |-> <<>>, missing |-> 0,
     writes |-> <<>>, cmds |-> <<>>, probe |-> "none",
     observed |-> 0 - 1, running |-> 0 - 1, cluster |-> "none",
     applied |-> <<>>, creates |-> 0, updates |-> 0, tenant |-> "none"]

\* A resource as created: no State, no conditions.
EmptyStatus == [State |-> "", Conditions |-> <<>>]

\* The invocation record when the last step was not a Sync invocation.
NoInvocation ==
    [pre |-> EmptyStatus, tr |-> EmptyTrace, result |-> Ok, resync |-> FALSE,
     prevCmds |-> <<>>]

\* The invocation ran resource sync to its end (no apply failed).
Synced(inv) ==
    /\ \E i \in 1..Len(inv.tr.phases) : inv.tr.phases[i] = "sync"
    /\ inv.result.err # "apply"

Enter(c, phase) == [c EXCEPT !.tr.phases = Append(@, phase)]

\* The phase returned: its outcome goes on record.
Leave(S) == { [c EXCEPT !.tr.outs = Append(@, c.res)] : c \in S }

\* One setState call on record: who made it, how it ended, what it carried.
Write(c, by, outcome) ==
    Append(c.tr.writes, [by |-> by, outcome |-> outcome,
                         State |-> c.mem.State, Conditions |-> c.mem.Conditions])

\* Mutant of CreateOrUpdate: an existing child is updated whether or not the
\* mutation changed it.
CreateOrUpdateAlwaysUpdates(c, k, owner, n) ==
    LET want == [exists |-> TRUE, data |-> Build(k, n), owner |-> owner]
        done ==
            IF ~c.ch[k].exists
            THEN [c |-> [c EXCEPT !.ch[k] = want, !.tr.creates = @ + 1,
                               !.tr.applied = Append(@, k)],
                  created |-> TRUE, failed |-> FALSE]
            ELSE [c |-> [c EXCEPT !.ch[k] = want, !.tr.updates = @ + 1,
                               !.tr.applied = Append(@, k)],
                  created |-> FALSE, failed |-> FALSE]
    IN  {done} \cup
        (IF c.faults THEN {[c |-> c, created |-> FALSE, failed |-> TRUE]} ELSE {})

\* Mutant of CreateOrUpdate: an update is reported as a create.
CreateOrUpdateReportsUpdateAsCreate(c, k, owner, n) ==
    LET want == [exists |-> TRUE, data |-> Build(k, n), owner |-> owner]
        done ==
            IF ~c.ch[k].exists
            THEN [c |-> [c EXCEPT !.ch[k] = want, !.tr.creates = @ + 1,
                               !.tr.applied = Append(@, k)],
                  created |-> TRUE, failed |-> FALSE]
            ELSE IF c.ch[k] # want
            THEN [c |-> [c EXCEPT !.ch[k] = want, !.tr.updates = @ + 1,
                               !.tr.applied = Append(@, k)],
                  created |-> TRUE, failed |-> FALSE]
            ELSE [c |-> [c EXCEPT !.tr.applied = Append(@, k)],
                  created |-> FALSE, failed |-> FALSE]
    IN  {done} \cup
        (IF c.faults THEN {[c |-> c, created |-> FALSE, failed |-> TRUE]} ELSE {})

\* ctrl.CreateOrUpdate(ctx, client, rr, mutate) for builder key k: Get, then
\* mutate (Build + SetControllerReference), then Create when it was not found,
\* Update when the mutation changed it, nothing otherwise.  Any failure leaves
\* the store as it was.  The result is a set of [c, created, failed].
CreateOrUpdate(c, k, owner, n) ==
    LET want == [exists |-> TRUE, data |-> Build(k, n), owner |-> owner]
        done ==
            IF ~c.ch[k].exists
            THEN [c |-> [c EXCEPT !.ch[k] = want, !.tr.creates = @ + 1,
                               !.tr.applied = Append(@, k)],
                  created |-> TRUE, failed |-> FALSE]
            ELSE IF c.ch[k] # want
            THEN [c |-> [c EXCEPT !.ch[k] = want, !.tr.updates = @ + 1,
                               !.tr.applied = Append(@, k)],
                  created |-> FALSE, failed |-> FALSE]
            ELSE [c |-> [c EXCEPT !.tr.applied = Append(@, k)],
                  created |-> FALSE, failed |-> FALSE]
    IN  {done} \cup
        (IF c.faults THEN {[c |-> c, created |-> FALSE, failed |-> TRUE]} ELSE {})

----------------------------------------------------------------------------
\* api/v1alpha1: the Database spec and its defaulting.
Namespaces == {"ns1", "ns2"}

\* fmt.Sprintf(ImagePathFormat, RegistryPath, tag): a name made of the
\* registry path and the tag; a name the user gave is a one-element sequence
\* and the empty name the empty sequence.
RegistryPath == "RegistryPath"
DefaultTag == "DefaultTag"
ImagePath(tag) == <<RegistryPath, tag>>

\* v1.PullIfNotPresent; a nil *PullPolicy is "nil".
PullIfNotPresent == "IfNotPresent"

\* The Database specs SetDatabaseSpecDefaults is applied to.
DatabaseSpecs ==
    [StorageClusterRef : [Name : {"storage1", "storage2"}, Namespace : {""} \cup Namespaces],
     Image : [Name : {<<>>, <<"custom">>}, PullPolicyName : {"nil", "Always", PullIfNotPresent}],
     YDBVersion : {"", "v1"}]

\* Mutant of SetDatabaseSpecDefaults: the reference namespace is always set to
\* the Database's own.
SetDatabaseSpecDefaultsOverwritesNamespace(ydbCr, ydbSpec) ==
    [StorageClusterRef |->
        [ydbSpec.StorageClusterRef EXCEPT !.Namespace = ydbCr.Namespace],
     Image |->
        [Name |-> IF ydbSpec.Image.Name = <<>>
                  THEN IF ydbSpec.YDBVersion = ""
                       THEN ImagePath(DefaultTag)
                       ELSE ImagePath(ydbSpec.YDBVersion)
                  ELSE ydbSpec.Image.Name,
         PullPolicyName |-> IF ydbSpec.Image.PullPolicyName = "nil"
                            THEN PullIfNotPresent
                            ELSE ydbSpec.Image.PullPolicyName],
     YDBVersion |-> ydbSpec.YDBVersion]

\* SetDatabaseSpecDefaults(ydbCr, ydbSpec): the spec it leaves in *ydbSpec.
SetDatabaseSpecDefaults(ydbCr, ydbSpec) ==
    [StorageClusterRef |->
        [ydbSpec.StorageClusterRef
           EXCEPT !.Namespace = IF @ = "" THEN ydbCr.Namespace ELSE @],
     Image |->
        [Name |-> IF ydbSpec.Image.Name = <<>>
                  THEN IF ydbSpec.YDBVersion = ""
                       THEN ImagePath(DefaultTag)
                       ELSE ImagePath(ydbSpec.YDBVersion)
                  ELSE ydbSpec.Image.Name,
         PullPolicyName |-> IF ydbSpec.Image.PullPolicyName = "nil"
                            THEN PullIfNotPresent
                            ELSE ydbSpec.Image.PullPolicyName],
     YDBVersion |-> ydbSpec.YDBVersion]

\* The Storage spec, and api.SetStorageClusterSpecDefaults filling what the
\* user left empty.
StorageSpecs == [Nodes : {StorageNodes}, Image : [Name : {<<>>, <<"custom">>}]]

SetStorageClusterSpecDefaults(spec) ==
    [spec EXCEPT !.Image.Name = IF @ = <<>> THEN ImagePath(DefaultTag) ELSE @]

\* The specs of the resources the reconcilers are handed: as the user wrote
\* them, nothing filled in.
StorageSpecAsCreated == [Nodes |-> StorageNodes, Image |-> [Name |-> <<>>]]

DatabaseSpecAsCreated ==
    [StorageClusterRef |-> [Name |-> "storage1", Namespace |-> ""],
     Image |-> [Name |-> <<>>, PullPolicyName |-> "nil"],
     YDBVersion |-> ""]

----------------------------------------------------------------------------
\* StorageClusterBuilder.GetResourceBuilders: the service monitors, one per
\* metric endpoint, then three services, the config map and the stateful set.
StorageMetricEndpoints == <<"servicemonitor">>

StorageResourceBuilders ==
    StorageMetricEndpoints \o
    <<"grpc", "interconnect", "status", "configmap", "statefulset">>

StorageKeys == {StorageResourceBuilders[i] : i \in 1..Len(StorageResourceBuilders)}

\* Mutant of NewCluster: SetStatusOnFirstReconcile empties the conditions of
\* the working copy on every reconcile.
NewClusterResetsConditions(ydbCr) ==
    [Spec |-> SetStorageClusterSpecDefaults(ydbCr.Spec),
     State |-> ydbCr.Status.State, Conditions |-> <<>>]

\* resources.NewCluster + SetStatusOnFirstReconcile: a deep copy of the
\* resource handed to Sync; a nil condition slice becomes the empty one.
NewCluster(ydbCr) ==
    [Spec |-> SetStorageClusterSpecDefaults(ydbCr.Spec),
     State |-> ydbCr.Status.State, Conditions |-> ydbCr.Status.Conditions]

\* Mutant of StorageSetState: the working copy is written back whole
\* (r.Update of the working copy for r.Status().Update of the re-fetched one).
StorageSetStateWritesWorkingCopy(c, by) ==
    { [c EXCEPT !.spec = c.mem.Spec,
                !.st = [State |-> c.mem.State, Conditions |-> c.mem.Conditions],
                !.tr.writes = Write(c, by, "ok"),
                !.res = Ok] }
    \cup
    (IF c.faults
     THEN { [c EXCEPT !.tr.writes = Write(c, by, o), !.res = NoRequeue(o)]
            : o \in {"fetch", "persist"} }
     ELSE {})

\* StorageReconciler.setState: re-fetch, copy State and Conditions in, update
\* the status subresource of what was fetched.
StorageSetState(c, by) ==
    LET storageCr == [Spec |-> c.spec, Status |-> c.st]
        updated == [storageCr EXCEPT !.Status.State = c.mem.State,
                                     !.Status.Conditions = c.mem.Conditions]
    IN  { [c EXCEPT !.spec = updated.Spec,
                    !.st = updated.Status,
                    !.tr.writes = Write(c, by, "ok"),
                    !.res = Ok] }
        \cup
        (IF c.faults
         THEN { [c EXCEPT !.tr.writes = Write(c, by, o), !.res = NoRequeue(o)]
                : o \in {"fetch", "persist"} }
         ELSE {})

\* The pods with the storage labels in phase Running, as r.List returns them.
StorageRunningPods(c) == IF c.faults THEN 0..MaxPods ELSE {StorageNodes}

\* Mutant of StorageWaitForStatefulSetToScale: Ready is written on every pass
\* of an initialized Storage (the `State != "Ready"` test is missing).
StorageWaitForStatefulSetToScaleRewritesReady(c0) ==
    LET c == Enter(c0, "scale")
        getFailed == IF c.faults THEN {[c EXCEPT !.res = NoRequeue("get")]} ELSE {}
        listFailed == IF c.faults THEN {[c EXCEPT !.res = NoRequeue("list")]} ELSE {}
        counted(runningPods) ==
            LET seen == [c EXCEPT !.tr.observed = runningPods, !.tr.running = runningPods]
            IN
            IF runningPods # StorageNodes
            THEN { IF w.res.err # "nil"
                   THEN [w EXCEPT !.res = NoRequeue(w.res.err)]
                   ELSE [w EXCEPT !.res = RequeueAfter(ScaleRequeueDelay, "nil")]
                   : w \in StorageSetState([seen EXCEPT !.mem.State = Provisioning], "scale") }
            ELSE IF IsStatusConditionTrue(seen.mem.Conditions, StorageInitializedCondition)
            THEN { IF w.res.err # "nil"
                   THEN [w EXCEPT !.res = NoRequeue(w.res.err)]
                   ELSE [w EXCEPT !.res = Ok]
                   : w \in StorageSetState([seen EXCEPT !.mem.State = Ready], "scale") }
            ELSE {[seen EXCEPT !.res = Ok]}
    IN  IF ~c.ch["statefulset"].exists
        THEN {[c EXCEPT !.res = Ok]} \cup getFailed
        ELSE getFailed \cup listFailed \cup
             UNION { counted(n) : n \in StorageRunningPods(c) }

\* Mutant of StorageWaitForStatefulSetToScale: only too few running pods count
\* as a mismatch (`<` for `!=`).
StorageWaitForStatefulSetToScaleBelowOnly(c0) ==
    LET c == Enter(c0, "scale")
        getFailed == IF c.faults THEN {[c EXCEPT !.res = NoRequeue("get")]} ELSE {}
        listFailed == IF c.faults THEN {[c EXCEPT !.res = NoRequeue("list")]} ELSE {}
        counted(runningPods) ==
            LET seen == [c EXCEPT !.tr.observed = runningPods, !.tr.running = runningPods]
            IN
            IF runningPods < StorageNodes
            THEN { IF w.res.err # "nil"
                   THEN [w EXCEPT !.res = NoRequeue(w.res.err)]
                   ELSE [w EXCEPT !.res = RequeueAfter(ScaleRequeueDelay, "nil")]
                   : w \in StorageSetState([seen EXCEPT !.mem.State = Provisioning], "scale") }
            ELSE IF seen.mem.State # Ready
                    /\ IsStatusConditionTrue(seen.mem.Conditions, StorageInitializedCondition)
            THEN { IF w.res.err # "nil"
                   THEN [w EXCEPT !.res = NoRequeue(w.res.err)]
                   ELSE [w EXCEPT !.res = Ok]
                   : w \in StorageSetState([seen EXCEPT !.mem.State = Ready], "scale") }
            ELSE {[seen EXCEPT !.res = Ok]}
    IN  IF ~c.ch["statefulset"].exists
        THEN {[c EXCEPT !.res = Ok]} \cup getFailed
        ELSE getFailed \cup listFailed \cup
             UNION { counted(n) : n \in StorageRunningPods(c) }

\* StorageReconciler.waitForStatefulSetToScale
StorageWaitForStatefulSetToScale(c0) ==
    LET c == Enter(c0, "scale")
        getFailed == IF c.faults THEN {[c EXCEPT !.res = NoRequeue("get")]} ELSE {}
        listFailed == IF c.faults THEN {[c EXCEPT !.res = NoRequeue("list")]} ELSE {}
        counted(runningPods) ==
            LET seen == [c EXCEPT !.tr.observed = runningPods, !.tr.running = runningPods]
            IN
            IF runningPods # StorageNodes
            THEN { IF w.res.err # "nil"
                   THEN [w EXCEPT !.res = NoRequeue(w.res.err)]
                   ELSE [w EXCEPT !.res = RequeueAfter(ScaleRequeueDelay, "nil")]
                   : w \in StorageSetState([seen EXCEPT !.mem.State = Provisioning], "scale") }
            ELSE IF seen.mem.State # Ready
                    /\ IsStatusConditionTrue(seen.mem.Conditions, StorageInitializedCondition)
            THEN { IF w.res.err # "nil"
                   THEN [w EXCEPT !.res = NoRequeue(w.res.err)]
                   ELSE [w EXCEPT !.res = Ok]
                   : w \in StorageSetState([seen EXCEPT !.mem.State = Ready], "scale") }
            ELSE {[seen EXCEPT !.res = Ok]}
    IN  IF ~c.ch["statefulset"].exists
        THEN {[c EXCEPT !.res = Ok]} \cup getFailed
        ELSE getFailed \cup listFailed \cup
             UNION { counted(n) : n \in StorageRunningPods(c) }

\* The loop of handleResourcesSync from builder i on; created is areResourcesCreated.
RECURSIVE StorageApplyFrom(_, _, _)
StorageApplyFrom(c, i, created) ==
    IF i > Len(StorageResourceBuilders)
    THEN {[c EXCEPT !.res = IF created THEN RequeueImmediately ELSE Ok]}
    ELSE UNION { IF r.failed
                 THEN {[r.c EXCEPT !.res = NoRequeue("apply")]}
                 ELSE StorageApplyFrom(r.c, i + 1, created \/ r.created)
                 : r \in CreateOrUpdate(c, StorageResourceBuilders[i], "storage", StorageNodes) }

\* Mutant of StorageHandleResourcesSync: a freshly created child does not stop
\* the invocation.
StorageHandleResourcesSyncNoRequeue(c) ==
    { [x EXCEPT !.res = IF x.res = RequeueImmediately THEN Ok ELSE x.res]
      : x \in StorageApplyFrom(Enter(c, "sync"), 1, FALSE) }

\* StorageReconciler.handleResourcesSync
StorageHandleResourcesSync(c) == StorageApplyFrom(Enter(c, "sync"), 1, FALSE)

\* Mutant of StorageWaitForHealthCheck: a negative probe is returned as an
\* error with no delay.
StorageWaitForHealthCheckUntimed(c0) ==
    LET c == Enter(c0, "health")
    IN  {[c EXCEPT !.tr.probe = "healthy", !.res = Ok]} \cup
        (IF c.faults
         THEN {[c EXCEPT !.tr.probe = "unhealthy", !.res = NoRequeue("unhealthy")]}
         ELSE {})

\* Mutant of StorageWaitForHealthCheck: an initialized Storage is not probed.
StorageWaitForHealthCheckSkipsInitialized(c0) ==
    LET c == Enter(c0, "health")
    IN  IF IsStatusConditionTrue(c.mem.Conditions, StorageInitializedCondition)
        THEN {[c EXCEPT !.res = Ok]}
        ELSE {[c EXCEPT !.tr.probe = "healthy", !.res = Ok]} \cup
             (IF c.faults
              THEN {[c EXCEPT !.tr.probe = "unhealthy",
                              !.res = RequeueAfter(HealthcheckRequeueDelay, "unhealthy")]}
              ELSE {})

\* StorageReconciler.waitForHealthCheck
StorageWaitForHealthCheck(c0) ==
    LET c == Enter(c0, "health")
    IN  {[c EXCEPT !.tr.probe = "healthy", !.res = Ok]} \cup
        (IF c.faults
         THEN {[c EXCEPT !.tr.probe = "unhealthy",
                         !.res = RequeueAfter(HealthcheckRequeueDelay, "unhealthy")]}
         ELSE {})

\* exec.ExecInPod of one bootstrap command: the contexts after a success and after a failure.
ExecInPod(c, cmd, ok) == [c EXCEPT !.tr.cmds = Append(@, [cmd |-> cmd, ok |-> ok])]

\* Mutant of RunDefineBoxScript: after marking the storage initialized it
\* returns plain success instead of an immediate requeue.
RunDefineBoxScriptNoRequeue(c0) ==
    LET c == Enter(c0, "bootstrap")
        cond == [Type |-> StorageInitializedCondition, Status |-> "True"]
        first == ExecInPod(c, "config invoke", TRUE)
        second == ExecInPod(first, "console execute", TRUE)
        marked == [second EXCEPT !.mem.Conditions = SetStatusCondition(@, cond)]
    IN  IF IsStatusConditionTrue(c.mem.Conditions, StorageInitializedCondition)
        THEN {[c EXCEPT !.res = Ok]}
        ELSE (IF c.faults
              THEN { [ExecInPod(c, "config invoke", FALSE)
                        EXCEPT !.res = RequeueAfter(DefineBoxRequeueDelay, "exec")],
                     [ExecInPod(first, "console execute", FALSE)
                        EXCEPT !.res = RequeueAfter(ConfigureRootRequeueDelay, "exec")] }
              ELSE {})
             \cup
             { IF w.res.err # "nil"
               THEN [w EXCEPT !.res = NoRequeue(w.res.err)]
               ELSE [w EXCEPT !.res = Ok]
               : w \in StorageSetState(marked, "bootstrap") }

\* Mutant of RunDefineBoxScript: the StorageInitialized gate is missing.
RunDefineBoxScriptUngated(c0) ==
    LET c == Enter(c0, "bootstrap")
        cond == [Type |-> StorageInitializedCondition, Status |-> "True"]
        first == ExecInPod(c, "config invoke", TRUE)
        second == ExecInPod(first, "console execute", TRUE)
        marked == [second EXCEPT !.mem.Conditions = SetStatusCondition(@, cond)]
    IN  (IF c.faults
         THEN { [ExecInPod(c, "config invoke", FALSE)
                   EXCEPT !.res = RequeueAfter(DefineBoxRequeueDelay, "exec")],
                [ExecInPod(first, "console execute", FALSE)
                   EXCEPT !.res = RequeueAfter(ConfigureRootRequeueDelay, "exec")] }
         ELSE {})
        \cup
        { IF w.res.err # "nil"
          THEN [w EXCEPT !.res = NoRequeue(w.res.err)]
          ELSE [w EXCEPT !.res = RequeueImmediately]
          : w \in StorageSetState(marked, "bootstrap") }

\* Mutant of RunDefineBoxScript: the outcome of the second command is looked
\* at only after the storage was marked initialized.
RunDefineBoxScriptMarksFirst(c0) ==
    LET c == Enter(c0, "bootstrap")
        cond == [Type |-> StorageInitializedCondition, Status |-> "True"]
        first == ExecInPod(c, "config invoke", TRUE)
        second == ExecInPod(first, "console execute", TRUE)
        failed == ExecInPod(first, "console execute", FALSE)
        marked == [second EXCEPT !.mem.Conditions = SetStatusCondition(@, cond)]
    IN  IF IsStatusConditionTrue(c.mem.Conditions, StorageInitializedCondition)
        THEN {[c EXCEPT !.res = Ok]}
        ELSE (IF c.faults
              THEN { [ExecInPod(c, "config invoke", FALSE)
                        EXCEPT !.res = RequeueAfter(DefineBoxRequeueDelay, "exec")] }
                   \cup
                   { [w EXCEPT !.res = RequeueAfter(ConfigureRootRequeueDelay, "exec")]
                     : w \in StorageSetState(
                               [failed EXCEPT !.mem.Conditions = SetStatusCondition(@, cond)],
                               "bootstrap") }
              ELSE {})
             \cup
             { IF w.res.err # "nil"
               THEN [w EXCEPT !.res = NoRequeue(w.res.err)]
               ELSE [w EXCEPT !.res = RequeueImmediately]
               : w \in StorageSetState(marked, "bootstrap") }

\* StorageReconciler.runDefineBoxScript
RunDefineBoxScript(c0) ==
    LET c == Enter(c0, "bootstrap")
        cond == [Type |-> StorageInitializedCondition, Status |-> "True"]
        first == ExecInPod(c, "config invoke", TRUE)
        second == ExecInPod(first, "console execute", TRUE)
        marked == [second EXCEPT !.mem.Conditions = SetStatusCondition(@, cond)]
    IN  IF IsStatusConditionTrue(c.mem.Conditions, StorageInitializedCondition)
        THEN {[c EXCEPT !.res = Ok]}
        ELSE (IF c.faults
              THEN { [ExecInPod(c, "config invoke", FALSE)
                        EXCEPT !.res = RequeueAfter(DefineBoxRequeueDelay, "exec")],
                     [ExecInPod(first, "console execute", FALSE)
                        EXCEPT !.res = RequeueAfter(ConfigureRootRequeueDelay, "exec")] }
              ELSE {})
             \cup
             { IF w.res.err # "nil"
               THEN [w EXCEPT !.res = NoRequeue(w.res.err)]
               ELSE [w EXCEPT !.res = RequeueImmediately]
               : w \in StorageSetState(marked, "bootstrap") }

\* Mutant of StorageSyncOutcomes: the outcome of the health check is not
\* looked at before the bootstrap phase is called.
StorageSyncOutcomesIgnoresHealth(c) ==
    LET scaled == Leave(StorageWaitForStatefulSetToScale(c))
        synced == UNION { IF Stops(x.res) THEN {x} ELSE Leave(StorageHandleResourcesSync(x))
                          : x \in scaled }
        probed == UNION { IF Stops(x.res) THEN {x} ELSE Leave(StorageWaitForHealthCheck(x))
                          : x \in synced }
        booted == UNION { IF Stops(x.res) /\ x.tr.probe = "none"
                          THEN {x} ELSE Leave(RunDefineBoxScript(x))
                          : x \in probed }
    IN  { IF Stops(x.res) THEN x ELSE [x EXCEPT !.res = Ok] : x \in booted }

\* StorageReconciler.Sync: the contexts one invocation can end in.
StorageSyncOutcomes(c) ==
    LET scaled == Leave(StorageWaitForStatefulSetToScale(c))
        synced == UNION { IF Stops(x.res) THEN {x} ELSE Leave(StorageHandleResourcesSync(x))
                          : x \in scaled }
        probed == UNION { IF Stops(x.res) THEN {x} ELSE Leave(StorageWaitForHealthCheck(x))
                          : x \in synced }
        booted == UNION { IF Stops(x.res) THEN {x} ELSE Leave(RunDefineBoxScript(x))
                          : x \in probed }
    IN  { IF Stops(x.res) THEN x ELSE [x EXCEPT !.res = Ok] : x \in booted }

StorageContext ==
    [mem |-> NewCluster([Spec |-> StorageSpecAsCreated, Status |-> sStatus]),
     spec |-> StorageSpecAsCreated, st |-> sStatus, ch |-> sCh, res |-> Ok,
     tr |-> [EmptyTrace EXCEPT !.missing = Cardinality({k \in StorageKeys : ~sCh[k].exists})],
     faults |-> ~settled]

\* One Sync invocation of the Storage reconciler, dispatched because the
\* resource is queued; it is queued again unless Sync returns plain success.
StorageSync ==
    /\ focus = "storage"
    /\ sPending
    /\ \E o \in StorageSyncOutcomes(StorageContext) :
          /\ sStatus' = o.st
          /\ sCh' = o.ch
          /\ sInv' = [pre |-> sStatus, tr |-> o.tr, result |-> o.res,
                       resync |-> Synced(sInv), prevCmds |-> sInv.tr.cmds]
          /\ sPending' = Stops(o.res)
    /\ UNCHANGED <<focus, unitVars, settled, databaseVars>>

----------------------------------------------------------------------------
\* The environment of the Storage reconciler.
Disturbed(ch, keys) ==
    Cardinality({k \in keys : ~ch[k].exists \/ ch[k].data = Edited(k)})

\* Somebody deletes an owned child.
StorageChildDeleted ==
    /\ focus = "storage" /\ ~settled
    /\ Disturbed(sCh, StorageKeys) < MaxDisturbed
    /\ \E k \in StorageKeys :
          /\ sCh[k].exists
          /\ sCh' = [sCh EXCEPT ![k] = Absent]
    /\ sInv' = NoInvocation
    /\ UNCHANGED <<focus, unitVars, sStatus, sPending, settled, databaseVars>>

\* Somebody edits an owned child.
StorageChildEdited ==
    /\ focus = "storage" /\ ~settled
    /\ Disturbed(sCh, StorageKeys) < MaxDisturbed
    /\ \E k \in StorageKeys :
          /\ sCh[k].exists
          /\ sCh' = [sCh EXCEPT ![k].data = Edited(k)]
    /\ sInv' = NoInvocation
    /\ UNCHANGED <<focus, unitVars, sStatus, sPending, settled, databaseVars>>

\* A watch event queues the resource.
StorageTrigger ==
    /\ focus = "storage" /\ ~sPending
    /\ sPending' = TRUE
    /\ sInv' = NoInvocation
    /\ UNCHANGED <<focus, unitVars, sStatus, sCh, settled, databaseVars>>

\* From here on Nodes members stay running, the probe is healthy, and the
\* remote commands and the object-store calls succeed.
StorageSettles ==
    /\ focus = "storage" /\ ~settled
    /\ settled' = TRUE
    /\ sInv' = NoInvocation
    /\ UNCHANGED <<focus, unitVars, sStatus, sCh, sPending, databaseVars>>

NextStorage ==
    \/ StorageSync
    \/ StorageChildDeleted
    \/ StorageChildEdited
    \/ StorageTrigger
    \/ StorageSettles

----------------------------------------------------------------------------
\* DatabaseBuilder.GetResourceBuilders: config data, a network endpoint and the
\* workload definition.
DatabaseResourceBuilders == <<"configmap", "service", "statefulset">>

DatabaseKeys == {DatabaseResourceBuilders[i] : i \in 1..Len(DatabaseResourceBuilders)}

\* resources.NewDatabase + SetStatusOnFirstReconcile
NewDatabase(ydbCr) ==
    [Spec |-> SetDatabaseSpecDefaults(ydbCr, ydbCr.Spec),
     State |-> ydbCr.Status.State, Conditions |-> ydbCr.Status.Conditions]

\* DatabaseReconciler.setState
DatabaseSetState(c, by) ==
    LET databaseCr == [Spec |-> c.spec, Status |-> c.st]
        updated == [databaseCr EXCEPT !.Status.State = c.mem.State,
                                      !.Status.Conditions = c.mem.Conditions]
    IN  { [c EXCEPT !.spec = updated.Spec,
                    !.st = updated.Status,
                    !.tr.writes = Write(c, by, "ok"),
                    !.res = Ok] }
        \cup
        (IF c.faults
         THEN { [c EXCEPT !.tr.writes = Write(c, by, o), !.res = NoRequeue(o)]
                : o \in {"fetch", "persist"} }
         ELSE {})

\* `_, err = r.setState(ctx, &database)` at the head of Sync: the outcome is dropped.
DatabaseSeedStatus(c0) ==
    { [w EXCEPT !.res = Ok] : w \in DatabaseSetState(Enter(c0, "seed"), "seed") }

\* The referenced Storage as r.Get finds it: not there, or there in some State.
ReferencedStorage == {"NotFound", "", Provisioning, Ready}

\* Mutant of WaitForClusterResource: a Storage that is found is good enough,
\* whatever its State.
WaitForClusterResourceAnyState(c0) ==
    LET c == Enter(c0, "cluster")
        getFailed ==
            IF c.faults
            THEN {[c EXCEPT !.tr.cluster = "error",
                            !.res = RequeueAfter(StorageAwaitRequeueDelay, "get")]}
            ELSE {}
        got(found) ==
            LET seen == [c EXCEPT !.tr.cluster = found]
            IN  IF found = "NotFound"
                THEN [seen EXCEPT !.res = RequeueAfter(StorageAwaitRequeueDelay, "notfound")]
                ELSE [seen EXCEPT !.res = Ok]
    IN  getFailed \cup { got(found) : found \in ReferencedStorage }

\* DatabaseReconciler.waitForClusterResource
WaitForClusterResource(c0) ==
    LET c == Enter(c0, "cluster")
        getFailed ==
            IF c.faults
            THEN {[c EXCEPT !.tr.cluster = "error",
                            !.res = RequeueAfter(StorageAwaitRequeueDelay, "get")]}
            ELSE {}
        got(found) ==
            LET seen == [c EXCEPT !.tr.cluster = found]
            IN  IF found = "NotFound"
                THEN [seen EXCEPT !.res = RequeueAfter(StorageAwaitRequeueDelay, "notfound")]
                ELSE IF found # Ready
                THEN [seen EXCEPT !.res = RequeueAfter(StorageAwaitRequeueDelay, "nil")]
                ELSE [seen EXCEPT !.res = Ok]
    IN  getFailed \cup { got(found) : found \in ReferencedStorage }

\* The StatefulSet as r.Get finds it: its Status.Replicas (pods its controller
\* has created) and how many of those pods are in phase Running.
DatabaseWorkloadStatus ==
    UNION { { [replicas |-> r, running |-> n] : n \in 0..r } : r \in 0..MaxPods }

\* Mutant of DatabaseWaitForStatefulSetToScale: Ready does not wait for
\* TenantInitialized.
DatabaseWaitForStatefulSetToScaleUngated(c0) ==
    LET c == Enter(c0, "scale")
        getFailed == IF c.faults THEN {[c EXCEPT !.res = NoRequeue("get")]} ELSE {}
        counted(replicas, runningPods) ==
            LET seen == [c EXCEPT !.tr.observed = replicas, !.tr.running = runningPods]
            IN
            IF replicas # DatabaseNodes
            THEN { IF w.res.err # "nil"
                   THEN [w EXCEPT !.res = NoRequeue(w.res.err)]
                   ELSE [w EXCEPT !.res = RequeueAfter(DefaultRequeueDelay, "nil")]
                   : w \in DatabaseSetState(
                             [seen EXCEPT !.mem.State = Provisioning, !.tr.running = 0 - 1],
                             "scale") }
            ELSE IF seen.mem.State # Ready
            THEN { IF w.res.err # "nil"
                   THEN [w EXCEPT !.res = NoRequeue(w.res.err)]
                   ELSE [w EXCEPT !.res = Ok]
                   : w \in DatabaseSetState([seen EXCEPT !.mem.State = Ready], "scale") }
            ELSE {[seen EXCEPT !.res = Ok]}
    IN  IF ~c.ch["statefulset"].exists
        THEN {[c EXCEPT !.res = Ok]} \cup getFailed
        ELSE getFailed \cup
             UNION { counted(w.replicas, w.running) : w \in DatabaseWorkloadStatus }

\* DatabaseReconciler.waitForStatefulSetToScale
DatabaseWaitForStatefulSetToScale(c0) ==
    LET c == Enter(c0, "scale")
        getFailed == IF c.faults THEN {[c EXCEPT !.res = NoRequeue("get")]} ELSE {}
        counted(replicas, runningPods) ==
            LET seen == [c EXCEPT !.tr.observed = replicas, !.tr.running = runningPods]
            IN
            IF replicas # DatabaseNodes
            THEN { IF w.res.err # "nil"
                   THEN [w EXCEPT !.res = NoRequeue(w.res.err)]
                   ELSE [w EXCEPT !.res = RequeueAfter(DefaultRequeueDelay, "nil")]
                   : w \in DatabaseSetState(
                             [seen EXCEPT !.mem.State = Provisioning, !.tr.running = 0 - 1],
                             "scale") }
            ELSE IF seen.mem.State # Ready
                    /\ IsStatusConditionTrue(seen.mem.Conditions, ConditionTenantInitialized)
            THEN { IF w.res.err # "nil"
                   THEN [w EXCEPT !.res = NoRequeue(w.res.err)]
                   ELSE [w EXCEPT !.res = Ok]
                   : w \in DatabaseSetState([seen EXCEPT !.mem.State = Ready], "scale") }
            ELSE {[seen EXCEPT !.res = Ok]}
    IN  IF ~c.ch["statefulset"].exists
        THEN {[c EXCEPT !.res = Ok]} \cup getFailed
        ELSE getFailed \cup
             UNION { counted(w.replicas, w.running) : w \in DatabaseWorkloadStatus }

\* The loop of handleResourcesSync from builder i on; created is areResourcesCreated.
RECURSIVE DatabaseApplyFrom(_, _, _)
DatabaseApplyFrom(c, i, created) ==
    IF i > Len(DatabaseResourceBuilders)
    THEN {[c EXCEPT !.res = IF created THEN RequeueImmediately ELSE Ok]}
    ELSE UNION { IF r.failed
                 THEN {[r.c EXCEPT !.res = NoRequeue("apply")]}
                 ELSE DatabaseApplyFrom(r.c, i + 1, created \/ r.created)
                 : r \in CreateOrUpdate(c, DatabaseResourceBuilders[i], "database", DatabaseNodes) }

\* DatabaseReconciler.handleResourcesSync
DatabaseHandleResourcesSync(c) == DatabaseApplyFrom(Enter(c, "sync"), 1, FALSE)

\* cms.Tenant.Create: the context after the call, by its outcome.
TenantCreate(c, ok) == [c EXCEPT !.tr.tenant = IF ok THEN "ok" ELSE "fail"]

\* Mutant of HandleTenantCreation: State is not moved to Initializing before
\* the tenant is created.
HandleTenantCreationSkipsInitializing(c0) ==
    LET c == Enter(c0, "tenant")
        cond == [Type |-> ConditionTenantInitialized, Status |-> "True"]
    IN  (IF c.faults
         THEN {[TenantCreate(c, FALSE)
                  EXCEPT !.res = RequeueAfter(TenantCreationRequeueDelay, "tenant")]}
         ELSE {})
        \cup
        { IF v.res.err # "nil"
          THEN [v EXCEPT !.res = NoRequeue(v.res.err)]
          ELSE [v EXCEPT !.res = RequeueImmediately]
          : v \in DatabaseSetState(
                    [TenantCreate(c, TRUE)
                       EXCEPT !.mem.Conditions = SetStatusCondition(@, cond)],
                    "tenant") }

\* DatabaseReconciler.handleTenantCreation
HandleTenantCreation(c0) ==
    LET c == Enter(c0, "tenant")
        cond == [Type |-> ConditionTenantInitialized, Status |-> "True"]
        begun == DatabaseSetState([c EXCEPT !.mem.State = Initializing], "tenant")
        called(w) ==
            (IF w.faults
             THEN {[TenantCreate(w, FALSE)
                      EXCEPT !.res = RequeueAfter(TenantCreationRequeueDelay, "tenant")]}
             ELSE {})
            \cup
            { IF v.res.err # "nil"
              THEN [v EXCEPT !.res = NoRequeue(v.res.err)]
              ELSE [v EXCEPT !.res = RequeueImmediately]
              : v \in DatabaseSetState(
                        [TenantCreate(w, TRUE)
                           EXCEPT !.mem.Conditions = SetStatusCondition(@, cond)],
                        "tenant") }
    IN  UNION { IF w.res.err # "nil"
                THEN {[w EXCEPT !.res = NoRequeue(w.res.err)]}
                ELSE called(w)
                : w \in begun }

\* Mutant of TenantCreationStep: handleTenantCreation is called on every pass.
TenantCreationStepUngated(c) == Leave(HandleTenantCreation(c))

\* The guarded call of handleTenantCreation at the end of Sync.
TenantCreationStep(c) ==
    IF ~IsStatusConditionTrue(c.mem.Conditions, ConditionTenantInitialized)
    THEN Leave(HandleTenantCreation(c))
    ELSE {c}

\* DatabaseReconciler.Sync: the contexts one invocation can end in.
DatabaseSyncOutcomes(c) ==
    LET seeded == Leave(DatabaseSeedStatus(c))
        waited == UNION { Leave(WaitForClusterResource(x)) : x \in seeded }
        scaled == UNION { IF Stops(x.res) THEN {x}
                          ELSE Leave(DatabaseWaitForStatefulSetToScale(x))
                          : x \in waited }
        synced == UNION { IF Stops(x.res) THEN {x} ELSE Leave(DatabaseHandleResourcesSync(x))
                          : x \in scaled }
        tenant == UNION { IF Stops(x.res) THEN {x} ELSE TenantCreationStep(x)
                          : x \in synced }
    IN  { IF Stops(x.res) THEN x ELSE [x EXCEPT !.res = Ok] : x \in tenant }

DatabaseContext ==
    [mem |-> NewDatabase([Namespace |-> "ns1", Spec |-> DatabaseSpecAsCreated,
                          Status |-> dStatus]),
     spec |-> DatabaseSpecAsCreated, st |-> dStatus, ch |-> dCh, res |-> Ok,
     tr |-> [EmptyTrace EXCEPT !.missing = Cardinality({k \in DatabaseKeys : ~dCh[k].exists})],
     faults |-> TRUE]

\* Whether the invocation persisted State = s at some point.
Persisted(tr, by) ==
    \E i \in 1..Len(tr.writes) : tr.writes[i].by = by /\ tr.writes[i].outcome = "ok"

\* One Sync invocation of the Database reconciler.
DatabaseSync ==
    /\ focus = "database"
    /\ \E o \in DatabaseSyncOutcomes(DatabaseContext) :
          /\ dStatus' = o.st
          /\ dCh' = o.ch
          /\ dInv' = [pre |-> dStatus, tr |-> o.tr, result |-> o.res,
                       resync |-> Synced(dInv), prevCmds |-> dInv.tr.cmds]
          /\ dHist' = [prevTenant |-> dHist.lastTenant, lastTenant |-> o.tr.tenant,
                       seenInitializing |-> dHist.seenInitializing \/ Persisted(o.tr, "tenant"),
                       createdBefore |-> dHist.createdBefore \/ dHist.lastTenant = "ok"]
    /\ UNCHANGED <<focus, unitVars, storageVars>>

----------------------------------------------------------------------------
\* The environment of the Database reconciler.

\* Somebody deletes an owned child.
DatabaseChildDeleted ==
    /\ focus = "database"
    /\ Disturbed(dCh, DatabaseKeys) < MaxDisturbed
    /\ \E k \in DatabaseKeys :
          /\ dCh[k].exists
          /\ dCh' = [dCh EXCEPT ![k] = Absent]
    /\ dInv' = NoInvocation
    /\ UNCHANGED <<focus, unitVars, dStatus, dHist, storageVars>>

\* Somebody edits an owned child.
DatabaseChildEdited ==
    /\ focus = "database"
    /\ Disturbed(dCh, DatabaseKeys) < MaxDisturbed
    /\ \E k \in DatabaseKeys :
          /\ dCh[k].exists
          /\ dCh' = [dCh EXCEPT ![k].data = Edited(k)]
    /\ dInv' = NoInvocation
    /\ UNCHANGED <<focus, unitVars, dStatus, dHist, storageVars>>

NextDatabase ==
    \/ DatabaseSync
    \/ DatabaseChildDeleted
    \/ DatabaseChildEdited

----------------------------------------------------------------------------
\* No spec is being defaulted.
NoDefaulting ==
    [Namespace |-> "ns1", spec |-> DatabaseSpecAsCreated, first |-> DatabaseSpecAsCreated,
     before |-> DatabaseSpecAsCreated, applied |-> 0]

\* No setState call is being looked at.
NoWrite == [called |-> FALSE, outcome |-> "none",
            spec |-> StorageSpecAsCreated, status |-> EmptyStatus]

NoFrame ==
    [kind |-> "none", spec |-> StorageSpecAsCreated, status |-> EmptyStatus,
     loaded |-> FALSE, from |-> StorageSpecAsCreated,
     wc |-> NewCluster([Spec |-> StorageSpecAsCreated, Status |-> EmptyStatus]),
     last |-> NoWrite]

\* The specs a stored resource of the kind goes through under external edits.
FrameSpecs(kind) ==
    IF kind = "storage"
    THEN StorageSpecs
    ELSE {spec \in DatabaseSpecs :
            /\ spec.StorageClusterRef.Name = "storage1"
            /\ spec.Image = [Name |-> <<>>, PullPolicyName |-> "nil"]
            /\ spec.YDBVersion = ""}

OneShotCondition(kind) ==
    IF kind = "storage" THEN StorageInitializedCondition ELSE ConditionTenantInitialized

\* Sync takes its working copy of the stored resource (NewCluster, NewDatabase).
FrameSyncStarts ==
    /\ focus = "frame"
    /\ frame' = [frame EXCEPT
          !.loaded = TRUE,
          !.from = frame.spec,
          !.wc = IF frame.kind = "storage"
                 THEN NewCluster([Spec |-> frame.spec, Status |-> frame.status])
                 ELSE NewDatabase([Namespace |-> "ns1", Spec |-> frame.spec,
                                   Status |-> frame.status]),
          !.last = NoWrite]
    /\ UNCHANGED <<focus, dflt, storageVars, databaseVars>>

\* A phase assigns State or sets the one-shot condition in the working copy.
FramePhaseAssigns ==
    /\ focus = "frame"
    /\ frame.loaded
    /\ \/ \E state \in {Provisioning, Initializing, Ready} :
             /\ state # frame.wc.State
             /\ frame' = [frame EXCEPT !.wc.State = state, !.last = NoWrite]
       \/ /\ ~IsStatusConditionTrue(frame.wc.Conditions, OneShotCondition(frame.kind))
          /\ frame' = [frame EXCEPT
                !.wc.Conditions =
                    SetStatusCondition(@, [Type |-> OneShotCondition(frame.kind),
                                           Status |-> "True"]),
                !.last = NoWrite]
    /\ UNCHANGED <<focus, dflt, storageVars, databaseVars>>

\* Somebody edits the spec of the stored resource.
FrameSpecEdited ==
    /\ focus = "frame"
    /\ \E spec \in FrameSpecs(frame.kind) \ {frame.spec} :
          frame' = [frame EXCEPT !.spec = spec, !.last = NoWrite]
    /\ UNCHANGED <<focus, dflt, storageVars, databaseVars>>

\* A phase calls setState with the working copy.
FrameSetState ==
    /\ focus = "frame"
    /\ frame.loaded
    /\ LET c == [mem |-> frame.wc, spec |-> frame.spec, st |-> frame.status,
                 ch |-> sCh, res |-> Ok, tr |-> EmptyTrace, faults |-> TRUE]
       IN  \E o \in (IF frame.kind = "storage"
                     THEN StorageSetState(c, "frame")
                     ELSE DatabaseSetState(c, "frame")) :
              frame' = [frame EXCEPT
                  !.spec = o.spec,
                  !.status = o.st,
                  !.last = [called |-> TRUE,
                            outcome |-> o.tr.writes[1].outcome,
                            spec |-> frame.spec,
                            status |-> frame.status]]
    /\ UNCHANGED <<focus, dflt, storageVars, databaseVars>>

\* SetDatabaseSpecDefaults is applied to the spec of the Database in hand.
ApplyDefaults ==
    /\ focus = "defaults"
    /\ dflt.applied < MaxApplied
    /\ dflt' = [dflt EXCEPT !.spec = SetDatabaseSpecDefaults([Namespace |-> dflt.Namespace], @),
                            !.before = dflt.spec,
                            !.applied = @ + 1]
    /\ UNCHANGED <<focus, frame, storageVars, databaseVars>>

----------------------------------------------------------------------------
InitCommon ==
    /\ sStatus = EmptyStatus
    /\ sCh = [k \in StorageKeys |-> Absent]
    /\ sPending = TRUE
    /\ settled = FALSE
    /\ sInv = NoInvocation
    /\ dStatus = EmptyStatus
    /\ dCh = [k \in DatabaseKeys |-> Absent]
    /\ dInv = NoInvocation
    /\ dHist = [prevTenant |-> "none", lastTenant |-> "none", seenInitializing |-> FALSE,
                createdBefore |-> FALSE]

InitUnits ==
    /\ dflt = NoDefaulting
    /\ frame = NoFrame

InitStorage == focus = "storage" /\ InitCommon /\ InitUnits

InitDatabase == focus = "database" /\ InitCommon /\ InitUnits

\* Any Database of any namespace, with any spec, before defaulting.
InitDefaults ==
    /\ focus = "defaults"
    /\ InitCommon
    /\ frame = NoFrame
    /\ \E ns \in Namespaces, spec \in DatabaseSpecs :
          dflt = [Namespace |-> ns, spec |-> spec, first |-> spec, before |-> spec,
                  applied |-> 0]

NextDefaults == ApplyDefaults

\* Any stored Storage or Database, with a status some earlier Sync left.
InitFrame ==
    /\ focus = "frame"
    /\ InitCommon
    /\ dflt = NoDefaulting
    /\ \E kind \in {"storage", "database"} :
       \E spec \in FrameSpecs(kind), state \in {"", Provisioning, Ready} :
          frame = [NoFrame EXCEPT
                     !.kind = kind, !.spec = spec, !.from = spec,
                     !.status = [State |-> state, Conditions |-> <<>>],
                     !.wc = [Spec |-> spec, State |-> state, Conditions |-> <<>>]]

NextFrame ==
    \/ FrameSyncStarts
    \/ FramePhaseAssigns
    \/ FrameSpecEdited
    \/ FrameSetState

Init == InitStorage \/ InitDatabase

Next == NextStorage \/ NextDatabase

Spec == Init /\ [][Next]_vars

LiveSpec == InitStorage /\ [][NextStorage]_vars /\ WF_vars(StorageSync)

DefaultsSpec == InitDefaults /\ [][NextDefaults]_vars

FrameSpec == InitFrame /\ [][NextFrame]_vars

----------------------------------------------------------------------------
\* Reading an invocation record.
Ran(inv, phase) == \E i \in 1..Len(inv.tr.phases) : inv.tr.phases[i] = phase

\* The outcome phase returned in the invocation (the phase ran).
OutOf(inv, phase) ==
    inv.tr.outs[CHOOSE i \in 1..Len(inv.tr.phases) : inv.tr.phases[i] = phase]

Invoked(inv) == inv.tr.phases # <<>>

\* The setState calls of the invocation that phase `by` made.
WritesBy(inv, by) == {i \in 1..Len(inv.tr.writes) : inv.tr.writes[i].by = by}

StorageInitialized(status) ==
    IsStatusConditionTrue(status.Conditions, StorageInitializedCondition)

TenantInitialized(status) ==
    IsStatusConditionTrue(status.Conditions, ConditionTenantInitialized)

----------------------------------------------------------------------------
\* C1. Storage convergence.  Once the environment has settled (Nodes members
\* stay running, the probe is healthy, the bootstrap commands, the status
\* writes and the other object-store calls succeed, nobody disturbs the
\* children) and Sync is re-invoked after every requeue, the persisted status
\* eventually has StorageInitialized=True and State=Ready.
StorageConvergence ==
    settled ~> (sStatus.State = Ready /\ StorageInitialized(sStatus))

\* An invocation in the settled environment made the Storage Ready.
StorageConvergenceWitness ==
    /\ settled
    /\ Invoked(sInv)
    /\ sInv.pre.State # Ready
    /\ sStatus.State = Ready
    /\ StorageInitialized(sStatus)

\* C2. Storage Ready is a fixed point.  An invocation that starts from
\* persisted State=Ready with StorageInitialized=True and every child in
\* place, and does not count a number of running members other than Nodes,
\* invokes no bootstrap command, creates no child, writes no status and
\* leaves State=Ready and StorageInitialized=True; when it counts Nodes
\* running members and the probe answers healthy it returns success with no
\* requeue.
StorageReadyFixedPoint ==
    (/\ Invoked(sInv)
     /\ sInv.pre.State = Ready
     /\ StorageInitialized(sInv.pre)
     /\ sInv.tr.missing = 0
     /\ sInv.tr.observed \in {0 - 1, StorageNodes})
    => /\ sInv.tr.cmds = <<>>
       /\ sInv.tr.creates = 0
       /\ sInv.tr.writes = <<>>
       /\ sStatus = sInv.pre
       /\ (sInv.tr.observed = StorageNodes /\ sInv.tr.probe = "healthy"
             => sInv.result = Ok)

\* A Ready Storage is synced again right after a sync and stays as it is.
StorageReadyFixedPointWitness ==
    /\ Invoked(sInv)
    /\ sInv.resync
    /\ sInv.pre.State = Ready
    /\ StorageInitialized(sInv.pre)
    /\ sInv.tr.missing = 0
    /\ sInv.tr.observed = StorageNodes
    /\ sInv.tr.probe = "healthy"
    /\ sInv.result = Ok
    /\ sStatus.State = Ready

\* C3. Dependency gating.  A Database Sync invocation that finds the
\* referenced Storage absent, cannot fetch it, or finds it in a State other
\* than Ready stops at the dependency-wait phase with a 60s requeue, creates
\* or updates no child, makes no tenant-creation call and leaves the
\* persisted State as it was before the invocation.
DependencyGating ==
    (Invoked(dInv) /\ dInv.tr.cluster \notin {"none", Ready})
    => /\ dInv.tr.phases = <<"seed", "cluster">>
       /\ ~dInv.result.Requeue
       /\ dInv.result.RequeueAfter = StorageAwaitRequeueDelay
       /\ dInv.tr.creates = 0
       /\ dInv.tr.updates = 0
       /\ dInv.tr.tenant = "none"
       /\ dStatus.State = dInv.pre.State

\* A Database that had got to Initializing waits for a Storage that is Provisioning.
DependencyGatingWitness ==
    /\ Invoked(dInv)
    /\ dInv.tr.cluster = Provisioning
    /\ dInv.pre.State = Initializing
    /\ dStatus.State = Initializing
    /\ dInv.result.RequeueAfter = StorageAwaitRequeueDelay

\* C4. One-shot bootstrap.  A Storage Sync invocation that starts with
\* StorageInitialized=True invokes no remote command; its bootstrap phase,
\* when reached, returns continue and writes no status.
OneShotBootstrap ==
    (Invoked(sInv) /\ StorageInitialized(sInv.pre))
    => /\ sInv.tr.cmds = <<>>
       /\ Ran(sInv, "bootstrap")
            => OutOf(sInv, "bootstrap") = Ok /\ WritesBy(sInv, "bootstrap") = {}

\* The bootstrap phase ran on an initialized Storage.
OneShotBootstrapWitness ==
    /\ Invoked(sInv)
    /\ StorageInitialized(sInv.pre)
    /\ Ran(sInv, "bootstrap")

\* C5. Under-scale detection.  A Sync invocation on a Storage with persisted
\* State=Ready that counts a number of running members other than Nodes runs
\* no later phase (no child sync, no probe, no command) and, its status write
\* succeeding, persists State=Provisioning and returns a requeue after 10s;
\* when the status write fails it returns that error and the status stays.
UnderScaleDetection ==
    (/\ Invoked(sInv)
     /\ sInv.pre.State = Ready
     /\ sInv.tr.observed \notin {0 - 1, StorageNodes})
    => /\ sInv.tr.phases = <<"scale">>
       /\ sInv.tr.creates = 0 /\ sInv.tr.updates = 0
       /\ sInv.tr.probe = "none"
       /\ sInv.tr.cmds = <<>>
       /\ Len(sInv.tr.writes) = 1
       /\ sInv.tr.writes[1].State = Provisioning
       /\ IF sInv.tr.writes[1].outcome = "ok"
          THEN /\ sStatus.State = Provisioning
               /\ sInv.result = RequeueAfter(ScaleRequeueDelay, "nil")
          ELSE /\ sStatus = sInv.pre
               /\ sInv.result = NoRequeue(sInv.tr.writes[1].outcome)

\* A Ready Storage lost a member and was put back to Provisioning.
UnderScaleDetectionWitness ==
    /\ Invoked(sInv)
    /\ sInv.pre.State = Ready
    /\ sInv.tr.observed < StorageNodes
    /\ sInv.tr.observed >= 0
    /\ sStatus.State = Provisioning
    /\ sInv.result = RequeueAfter(ScaleRequeueDelay, "nil")

\* C6. Tenant-creation retry.  An invocation whose tenant-creation call
\* fails returns a 30s requeue and leaves State=Initializing with
\* TenantInitialized not True.  When the call fails in one invocation and
\* succeeds in the next, the persisted conditions hold, once the status write
\* has gone through, exactly one TenantInitialized entry, with Status True
\* (with the write failing the error is returned and no entry is persisted).
\* The condition sequence never holds two entries of the Type, and a persisted
\* State=Ready has been preceded by a persisted State=Initializing.
TenantCreationRetry ==
    /\ CountType(dStatus.Conditions, ConditionTenantInitialized) <= 1
    /\ dStatus.State = Ready => dHist.seenInitializing
    /\ (Invoked(dInv) /\ dInv.tr.tenant = "fail")
         => /\ dInv.result = RequeueAfter(TenantCreationRequeueDelay, "tenant")
            /\ dStatus.State = Initializing
            /\ ~TenantInitialized(dStatus)
    /\ (Invoked(dInv) /\ dHist.prevTenant = "fail" /\ dInv.tr.tenant = "ok")
         => LET last == dInv.tr.writes[Len(dInv.tr.writes)]
            IN  /\ last.by = "tenant"
                /\ dStatus.State = Initializing
                /\ IF last.outcome = "ok"
                   THEN /\ CountType(dStatus.Conditions, ConditionTenantInitialized) = 1
                        /\ TenantInitialized(dStatus)
                        /\ dInv.result = RequeueImmediately
                   ELSE /\ ~TenantInitialized(dStatus)
                        /\ dInv.result = NoRequeue(last.outcome)

\* The call failed, then succeeded in the next invocation, and the condition is persisted.
TenantCreationRetryWitness ==
    /\ Invoked(dInv)
    /\ dHist.prevTenant = "fail"
    /\ dInv.tr.tenant = "ok"
    /\ dHist.seenInitializing
    /\ TenantInitialized(dStatus)
    /\ CountType(dStatus.Conditions, ConditionTenantInitialized) = 1

\* C7. Idempotence of resource sync.  When handleResourcesSync runs to its
\* end in an invocation that directly follows one in which it also ran to
\* its end (nothing else happened in between), the second run creates nothing
\* and updates nothing, so every child keeps the contents the first run left,
\* every builder key has its child, built as the builder builds it, and the
\* run returns continue.
IdempotentAfter(inv, ch, builders, owner, n) ==
    (Invoked(inv) /\ inv.resync /\ Synced(inv))
    => /\ inv.tr.creates = 0
       /\ inv.tr.updates = 0
       /\ OutOf(inv, "sync") = Ok
       /\ \A i \in 1..Len(builders) :
             ch[builders[i]] = [exists |-> TRUE, data |-> Build(builders[i], n), owner |-> owner]

ResourceSyncIdempotent ==
    /\ IdempotentAfter(sInv, sCh, StorageResourceBuilders, "storage", StorageNodes)
    /\ IdempotentAfter(dInv, dCh, DatabaseResourceBuilders, "database", DatabaseNodes)

\* Resource sync ran to its end twice in a row, for either owner.
ResourceSyncIdempotentWitness ==
    \/ Invoked(sInv) /\ sInv.resync /\ Synced(sInv) /\ OutOf(sInv, "sync") = Ok
    \/ Invoked(dInv) /\ dInv.resync /\ Synced(dInv) /\ OutOf(dInv, "sync") = Ok

\* C8. Ready is gated by the one-shot condition.  A persisted State=Ready
\* comes with StorageInitialized=True (Storage) or TenantInitialized=True
\* (Database), and every status write a Sync invocation attempts with
\* State=Ready carries the condition as True.
ReadyGated ==
    /\ sStatus.State = Ready => StorageInitialized(sStatus)
    /\ dStatus.State = Ready => TenantInitialized(dStatus)
    /\ \A i \in 1..Len(sInv.tr.writes) :
          sInv.tr.writes[i].State = Ready => StorageInitialized(sInv.tr.writes[i])
    /\ \A i \in 1..Len(dInv.tr.writes) :
          dInv.tr.writes[i].State = Ready => TenantInitialized(dInv.tr.writes[i])

\* An invocation has just written State=Ready, for either resource.
ReadyGatedWitness ==
    \/ /\ Invoked(sInv) /\ sInv.pre.State # Ready /\ sStatus.State = Ready
    \/ /\ Invoked(dInv) /\ dInv.pre.State # Ready /\ dStatus.State = Ready

\* C9. State monotonicity.  With "" < Provisioning < Initializing < Ready,
\* every status write of a Sync invocation that goes through either does not
\* lower the rank of the persisted State or is the wait-for-scale phase's
\* write of Provisioning after it observed a count other than Nodes.
Rank(state) ==
    IF state = "" THEN 0
    ELSE IF state = Provisioning THEN 1
    ELSE IF state = Initializing THEN 2
    ELSE 3

\* The persisted States of an invocation: the one before it, then the one of
\* every status write that went through.
StatesOf(inv) ==
    LET done == SelectSeq(inv.tr.writes, LAMBDA w : w.outcome = "ok")
    IN  <<[by |-> "before", State |-> inv.pre.State]>>
        \o [i \in 1..Len(done) |-> [by |-> done[i].by, State |-> done[i].State]]

MonotonicIn(inv, nodes) ==
    LET states == StatesOf(inv)
    IN  \A i \in 1..(Len(states) - 1) :
           \/ Rank(states[i + 1].State) >= Rank(states[i].State)
           \/ /\ states[i + 1].State = Provisioning
              /\ states[i + 1].by = "scale"
              /\ inv.tr.observed \notin {0 - 1, nodes}

StateMonotonic ==
    /\ MonotonicIn(sInv, StorageNodes)
    /\ MonotonicIn(dInv, DatabaseNodes)
    /\ Invoked(sInv) => sStatus.State = StatesOf(sInv)[Len(StatesOf(sInv))].State
    /\ Invoked(dInv) => dStatus.State = StatesOf(dInv)[Len(StatesOf(dInv))].State

\* A Database went from Initializing to Ready, or from Ready back to
\* Provisioning on a replica count other than Nodes.
StateMonotonicWitness ==
    /\ Invoked(dInv)
    /\ \/ dInv.pre.State = Initializing /\ dStatus.State = Ready
       \/ dInv.pre.State = Ready /\ dStatus.State = Provisioning

\* C10. Database wait-for-scale on running members.  Whenever the
\* Database's workload exists and the wait-for-scale phase continues (with
\* TenantInitialized=True writing State=Ready), the number of members in the
\* running phase equals Nodes.
DatabaseScaledOnRunningMembers ==
    (/\ Invoked(dInv)
     /\ Ran(dInv, "scale")
     /\ dInv.tr.observed # 0 - 1
     /\ OutOf(dInv, "scale") = Ok)
    => dInv.tr.running = DatabaseNodes

\* C11. Storage-reference defaulting.  After SetDatabaseSpecDefaults the
\* StorageClusterRef.Namespace is the Database's own namespace when it was
\* empty before and is what it was when it was not; the reference Name is
\* what it was; and a second application leaves the whole spec as the first
\* left it.
StorageRefDefaulting ==
    dflt.applied >= 1 =>
        /\ dflt.spec.StorageClusterRef.Namespace =
              IF dflt.first.StorageClusterRef.Namespace = ""
              THEN dflt.Namespace
              ELSE dflt.first.StorageClusterRef.Namespace
        /\ dflt.spec.StorageClusterRef.Name = dflt.first.StorageClusterRef.Name
        /\ dflt.applied >= 2 => dflt.spec = dflt.before

\* A spec with no reference namespace was defaulted twice.
StorageRefDefaultingWitness ==
    /\ focus = "defaults"
    /\ dflt.applied >= 2
    /\ dflt.first.StorageClusterRef.Namespace = ""
    /\ dflt.spec.StorageClusterRef.Namespace = dflt.Namespace

\* C12. Pre-bootstrap ordering.  A Storage Sync invocation that invokes a
\* bootstrap command has, before that, found the workload with Nodes running
\* members, run resource sync without creating a child and got a healthy
\* probe; the first command invoked is config invoke, and console execute is
\* invoked only second, after config invoke succeeded, and nothing after it.
PreBootstrapOrdering ==
    sInv.tr.cmds # <<>> =>
        /\ sInv.tr.phases = <<"scale", "sync", "health", "bootstrap">>
        /\ sInv.tr.observed = StorageNodes
        /\ sInv.tr.creates = 0
        /\ sInv.tr.missing = 0
        /\ sInv.tr.probe = "healthy"
        /\ sInv.tr.cmds[1].cmd = "config invoke"
        /\ Len(sInv.tr.cmds) <= 2
        /\ Len(sInv.tr.cmds) = 2 =>
              /\ sInv.tr.cmds[1].ok
              /\ sInv.tr.cmds[2].cmd = "console execute"

\* Both commands were invoked, in an invocation that followed one which had
\* to create children.
PreBootstrapOrderingWitness ==
    /\ Len(sInv.tr.cmds) = 2
    /\ sInv.tr.cmds[2].ok
    /\ sInv.tr.observed = StorageNodes
    /\ sInv.tr.probe = "healthy"

\* C13. Short-circuit.  In both reconcilers the phases run in the declared
\* order; every phase but the last one that ran returned continue; when the
\* last one returned a requeue or an error Sync returns exactly that outcome,
\* and otherwise every phase of the sequence ran and Sync returns plain
\* success.  What a phase that did not run would have done is not done: no
\* status write of its, no child created or updated, no probe, no remote
\* command, no tenant-creation call.
IsPrefix(s, t) == Len(s) <= Len(t) /\ \A i \in 1..Len(s) : s[i] = t[i]

ShortCircuitIn(inv) ==
    LET n == Len(inv.tr.phases)
    IN  Invoked(inv) =>
          /\ Len(inv.tr.outs) = n
          /\ \A i \in 1..(n - 1) : ~Stops(inv.tr.outs[i])
          /\ inv.result = inv.tr.outs[n]
          /\ \A i \in 1..Len(inv.tr.writes) : Ran(inv, inv.tr.writes[i].by)
          /\ ~Ran(inv, "sync") => inv.tr.creates = 0 /\ inv.tr.updates = 0
          /\ ~Ran(inv, "health") => inv.tr.probe = "none"
          /\ ~Ran(inv, "bootstrap") => inv.tr.cmds = <<>>
          /\ ~Ran(inv, "tenant") => inv.tr.tenant = "none"

ShortCircuit ==
    /\ ShortCircuitIn(sInv)
    /\ ShortCircuitIn(dInv)
    /\ IsPrefix(sInv.tr.phases, <<"scale", "sync", "health", "bootstrap">>)
    /\ IsPrefix(dInv.tr.phases, <<"seed", "cluster", "scale", "sync", "tenant">>)
    /\ (Invoked(sInv) /\ sInv.result = Ok) => Len(sInv.tr.phases) = 4
    /\ (Invoked(dInv) /\ dInv.result = Ok) =>
          \/ Len(dInv.tr.phases) = 5
          \/ Len(dInv.tr.phases) = 4 /\ TenantInitialized(dStatus)

\* An invocation stopped at a phase in the middle of the sequence.
ShortCircuitWitness ==
    \/ /\ sInv.tr.phases = <<"scale", "sync", "health">>
       /\ sInv.result = RequeueAfter(HealthcheckRequeueDelay, "unhealthy")
    \/ /\ dInv.tr.phases = <<"seed", "cluster", "scale">>
       /\ dInv.result = RequeueAfter(DefaultRequeueDelay, "nil")

\* C14. Status Writer frame.  After a setState call that went through, the
\* stored resource has the State and Conditions of the working copy, and its
\* spec is the one the store held when setState fetched it: neither what the
\* working copy was taken from, if somebody edited the spec since, nor the
\* working copy's spec with the defaults filled in.  After a setState call
\* whose re-fetch or persist failed the stored resource is as it was.
StatusWriterFrame ==
    (focus = "frame" /\ frame.last.called) =>
        /\ frame.spec = frame.last.spec
        /\ IF frame.last.outcome = "ok"
           THEN frame.status = [State |-> frame.wc.State,
                                Conditions |-> frame.wc.Conditions]
           ELSE frame.status = frame.last.status

\* setState went through with a working copy whose spec has defaults filled
\* in, taken before somebody edited the stored spec, and it changed the status.
StatusWriterFrameWitness ==
    /\ focus = "frame"
    /\ frame.last.called
    /\ frame.last.outcome = "ok"
    /\ frame.from # frame.spec
    /\ frame.wc.Spec # frame.from
    /\ frame.status # frame.last.status

\* C15. Status-write failures are surfaced.  In both reconcilers every
\* setState call of a Sync invocation whose re-fetch or persist fails is the
\* last thing the invocation does: Sync returns that error with no requeue
\* delay, and the phase that made the call is the last phase that ran.
SurfacedIn(inv) ==
    \A i \in 1..Len(inv.tr.writes) :
        inv.tr.writes[i].outcome # "ok" =>
            /\ i = Len(inv.tr.writes)
            /\ inv.result = NoRequeue(inv.tr.writes[i].outcome)
            /\ inv.tr.phases[Len(inv.tr.phases)] = inv.tr.writes[i].by

StatusWriteFailuresSurfaced ==
    /\ SurfacedIn(sInv)
    /\ SurfacedIn(dInv)

\* C16 as stated.  Every Sync outcome caused by a failing workload get,
\* member list or child create-or-update, a failing remote command, a
\* negative health probe or a failing tenant creation carries a positive
\* requeue delay.
TransientCauses == {"get", "list", "apply", "exec", "unhealthy", "tenant"}

TransientFailuresTimed ==
    /\ sInv.result.err \in TransientCauses => sInv.result.RequeueAfter > 0
    /\ dInv.result.err \in TransientCauses => dInv.result.RequeueAfter > 0

\* C16, amended.  A Sync outcome caused by a failing remote command, a
\* negative health probe or a failing tenant creation carries the error and a
\* 30s requeue delay; one caused by the referenced Storage not being fetched
\* carries the error and a 60s delay; one caused by a failing workload get,
\* member list or child create-or-update carries the error with no delay and
\* no requeue request.
FailureOutcomeIn(inv) ==
    LET cause == inv.result.err
        phase == inv.tr.phases[Len(inv.tr.phases)]
    IN  (Invoked(inv) /\ cause \in TransientCauses \cup {"notfound"}) =>
          /\ cause = "exec" =>
                /\ phase = "bootstrap"
                /\ inv.result = RequeueAfter(DefineBoxRequeueDelay, "exec")
                /\ inv.result = RequeueAfter(ConfigureRootRequeueDelay, "exec")
          /\ cause = "unhealthy" =>
                inv.result = RequeueAfter(HealthcheckRequeueDelay, "unhealthy")
          /\ cause = "tenant" =>
                inv.result = RequeueAfter(TenantCreationRequeueDelay, "tenant")
          /\ (cause \in {"get", "notfound"} /\ phase = "cluster") =>
                inv.result = RequeueAfter(StorageAwaitRequeueDelay, cause)
          /\ (cause = "get" /\ phase # "cluster") =>
                phase = "scale" /\ inv.result = NoRequeue("get")
          /\ cause = "list" => phase = "scale" /\ inv.result = NoRequeue("list")
          /\ cause = "apply" => phase = "sync" /\ inv.result = NoRequeue("apply")

TransientFailureOutcomes ==
    /\ FailureOutcomeIn(sInv)
    /\ FailureOutcomeIn(dInv)

\* The second bootstrap command failed and the invocation asks to be run
\* again in 30s.
TransientFailureOutcomesWitness ==
    /\ Len(sInv.tr.cmds) = 2
    /\ ~sInv.tr.cmds[2].ok
    /\ sInv.result.err = "exec"
    /\ sInv.result.RequeueAfter = ConfigureRootRequeueDelay

\* C17. Health-check gate.  Every invocation that reaches the health-check
\* phase queries the probe, whether or not StorageInitialized is True.  On a
\* negative probe the phase returns a 30s requeue, which is what Sync returns;
\* the phase writes no status, so the persisted status is what wait-for-scale
\* left (what it was before the invocation when that phase wrote nothing),
\* and no bootstrap command is invoked.  On a healthy probe the phase
\* continues and the bootstrap phase is entered.
HealthCheckGate ==
    /\ Ran(sInv, "health") <=> sInv.tr.probe # "none"
    /\ WritesBy(sInv, "health") = {}
    /\ sInv.tr.probe = "unhealthy" =>
          /\ OutOf(sInv, "health") = RequeueAfter(HealthcheckRequeueDelay, "unhealthy")
          /\ sInv.result = OutOf(sInv, "health")
          /\ sInv.tr.cmds = <<>>
          /\ ~Ran(sInv, "bootstrap")
          /\ \A i \in 1..Len(sInv.tr.writes) : sInv.tr.writes[i].by = "scale"
          /\ sStatus = IF sInv.tr.writes = <<>>
                       THEN sInv.pre
                       ELSE [State |-> sInv.tr.writes[1].State,
                             Conditions |-> sInv.tr.writes[1].Conditions]
          /\ sStatus.Conditions = sInv.pre.Conditions
    /\ sInv.tr.probe = "healthy" =>
          /\ OutOf(sInv, "health") = Ok
          /\ Ran(sInv, "bootstrap")

\* A Ready, initialized Storage was probed and the probe was negative.
HealthCheckGateWitness ==
    /\ sInv.tr.probe = "unhealthy"
    /\ sInv.pre.State = Ready
    /\ StorageInitialized(sInv.pre)
    /\ sStatus = sInv.pre

\* C18. Bootstrap command failure.  When a bootstrap command fails the
\* invocation returns a 30s requeue, the bootstrap phase makes no status
\* write and StorageInitialized is not True afterwards; the failed command is
\* the last one invoked, so a failed first command is not followed by the
\* second.  An invocation that invokes commands starts with config invoke,
\* also when the invocation before it had config invoke succeed.
\* StorageInitialized becomes True only in an invocation that invoked config
\* invoke and then console execute, both succeeding, and that invocation
\* returns an immediate requeue.
BootstrapCommandFailure ==
    /\ \A i \in 1..Len(sInv.tr.cmds) :
          ~sInv.tr.cmds[i].ok =>
              /\ i = Len(sInv.tr.cmds)
              /\ sInv.result = RequeueAfter(DefineBoxRequeueDelay, "exec")
              /\ sInv.result = RequeueAfter(ConfigureRootRequeueDelay, "exec")
              /\ WritesBy(sInv, "bootstrap") = {}
              /\ ~StorageInitialized(sStatus)
    /\ sInv.tr.cmds # <<>> => sInv.tr.cmds[1].cmd = "config invoke"
    /\ (Invoked(sInv) /\ StorageInitialized(sStatus) /\ ~StorageInitialized(sInv.pre)) =>
          /\ sInv.tr.cmds = << [cmd |-> "config invoke", ok |-> TRUE],
                               [cmd |-> "console execute", ok |-> TRUE] >>
          /\ sInv.result = RequeueImmediately

\* The second command failed in one invocation; the next one ran both
\* commands again and marked the storage initialized.
BootstrapCommandFailureWitness ==
    /\ sInv.prevCmds = << [cmd |-> "config invoke", ok |-> TRUE],
                          [cmd |-> "console execute", ok |-> FALSE] >>
    /\ sInv.tr.cmds = << [cmd |-> "config invoke", ok |-> TRUE],
                         [cmd |-> "console execute", ok |-> TRUE] >>
    /\ StorageInitialized(sStatus)
    /\ sInv.result = RequeueImmediately

\* C19. Resource sync requeues exactly on creation.  handleResourcesSync
\* applies the builders of the owner's builder set in their order, stopping
\* only at an apply that fails.  When none fails every builder was applied,
\* every child that was missing was created in this call (a create does not
\* stop the loop), every child is as its builder builds it, and the call
\* returns an immediate requeue when it created a child and continue when it
\* created none.  An invocation that created a child runs no health probe,
\* no bootstrap command and no tenant-creation call.
RequeueOnCreationIn(inv, ch, builders, owner, n) ==
    /\ IsPrefix(inv.tr.applied, builders)
    /\ Ran(inv, "sync") =>
          /\ inv.result.err = "apply" <=> inv.tr.applied # builders
          /\ Synced(inv) =>
                /\ inv.tr.creates = inv.tr.missing
                /\ OutOf(inv, "sync") =
                      IF inv.tr.creates > 0 THEN RequeueImmediately ELSE Ok
                /\ \A i \in 1..Len(builders) :
                      ch[builders[i]] =
                          [exists |-> TRUE, data |-> Build(builders[i], n), owner |-> owner]
    /\ inv.tr.creates > 0 =>
          /\ inv.tr.probe = "none"
          /\ inv.tr.cmds = <<>>
          /\ inv.tr.tenant = "none"

RequeueOnCreation ==
    /\ RequeueOnCreationIn(sInv, sCh, StorageResourceBuilders, "storage", StorageNodes)
    /\ RequeueOnCreationIn(dInv, dCh, DatabaseResourceBuilders, "database", DatabaseNodes)

\* Resource sync created several children in one call and asked for an
\* immediate requeue.
RequeueOnCreationWitness ==
    \/ /\ Synced(sInv) /\ sInv.tr.creates >= 2
       /\ sInv.result = RequeueImmediately
    \/ /\ Synced(dInv) /\ dInv.tr.creates >= 2
       /\ dInv.result = RequeueImmediately

\* C20. The one-shot condition is set at most once and never lost.  The
\* persisted condition sequence, and the sequence every status write carries,
\* holds at most one entry per Type.  When StorageInitialized (for a Database
\* TenantInitialized) is True in the persisted status an invocation starts
\* from, every status write of the invocation carries it as True, whatever
\* State it writes, and it is True in the persisted status afterwards.
OneShotConditions == {StorageInitializedCondition, ConditionTenantInitialized}

OneShotKeptIn(inv, status, type) ==
    /\ \A t \in OneShotConditions : CountType(status.Conditions, t) <= 1
    /\ \A i \in 1..Len(inv.tr.writes), t \in OneShotConditions :
          CountType(inv.tr.writes[i].Conditions, t) <= 1
    /\ (Invoked(inv) /\ IsStatusConditionTrue(inv.pre.Conditions, type)) =>
          /\ IsStatusConditionTrue(status.Conditions, type)
          /\ \A i \in 1..Len(inv.tr.writes) :
                IsStatusConditionTrue(inv.tr.writes[i].Conditions, type)

OneShotConditionKept ==
    /\ OneShotKeptIn(sInv, sStatus, StorageInitializedCondition)
    /\ OneShotKeptIn(dInv, dStatus, ConditionTenantInitialized)

\* An initialized, Ready Storage lost a member: Provisioning was written and
\* the condition is still True.
OneShotConditionKeptWitness ==
    /\ Invoked(sInv)
    /\ StorageInitialized(sInv.pre)
    /\ sInv.pre.State = Ready
    /\ sStatus.State = Provisioning
    /\ StorageInitialized(sStatus)

\* C21. Completed one-shot work is not redone.  Whatever the outcome of each
\* status re-fetch and persist, once a tenant-creation call has succeeded in
\* an invocation of a Database, no later invocation calls the
\* tenant-creation collaborator.
TenantCreatedOnce ==
    dHist.createdBefore => dInv.tr.tenant = "none"

====
